---- MODULE Spec2Model ----
(***************************************************************************)
(* menu-kit: the selection Runner (src/src/menu_kit/core/runner.py) and    *)
(* the collaborators it drives.                                            *)
(*                                                                         *)
(* Strings that the code splits or concatenates (item ids, plugin          *)
(* specifiers, plugin names, titles) are sequences of symbols; ":" is the  *)
(* colon and every other symbol stands for a colon-free run of characters. *)
(* The empty sequence is the empty string; Python's None in a position the *)
(* code only tests for truthiness (options.plugin, item.plugin) is the     *)
(* empty string as well, since both are falsy.  Backend names are never    *)
(* split and are plain strings, "" standing for None / empty.              *)
(***************************************************************************)
EXTENDS Integers, Sequences, FiniteSets, TLC

\* ------------------------------------------------------------------ bounds
\* longest scripted chain given on the command line
MaxSelections == 3
\* number of iterations of the interactive loop that are explored
MaxLoop == 2

\* ------------------------------------------------------------- exit codes
EXIT_SUCCESS == 0
EXIT_CANCELLED == 1
EXIT_SELECTION_NOT_FOUND == 2
EXIT_PLUGIN_NOT_FOUND == 3
EXIT_EXECUTION_FAILED == 4
EXIT_CONFIG_ERROR == 5
EXIT_NO_BACKEND == 6
\* Runner.run has not returned a code (still running, or left by an exception)
NoCode == 0 - 1

ExitCodes ==
    { EXIT_SUCCESS, EXIT_CANCELLED, EXIT_SELECTION_NOT_FOUND, EXIT_PLUGIN_NOT_FOUND,
      EXIT_EXECUTION_FAILED, EXIT_CONFIG_ERROR, EXIT_NO_BACKEND }

\* ---------------------------------------------------------------- strings
Colon == ":"
EmptyStr == << >>

\* Python truthiness of a str | None
Truthy(s) == s # EmptyStr

HasColon(s) == \E k \in 1..Len(s) : s[k] = Colon

FirstColon(s) == CHOOSE k \in 1..Len(s) : s[k] = Colon /\ \A j \in 1..(k - 1) : s[j] # Colon

LastColon(s) == CHOOSE k \in 1..Len(s) : s[k] = Colon /\ \A j \in (k + 1)..Len(s) : s[j] # Colon

\* s.split(":", 1)[0] and [1], for s holding a colon
BeforeColon(s) == SubSeq(s, 1, FirstColon(s) - 1)

AfterLastColon(s) == SubSeq(s, LastColon(s) + 1, Len(s))

AfterColon(s) == SubSeq(s, FirstColon(s) + 1, Len(s))

\* The action of an executed item: runner.py 161-163 and 210-212
ItemAction_LastColon(id) == IF HasColon(id) THEN AfterLastColon(id) ELSE EmptyStr

ItemAction(id) == IF HasColon(id) THEN AfterColon(id) ELSE EmptyStr

\* plugin_name, action of a plugin[:action] specifier: runner.py 119-124
ParseSpec(plugin_spec) ==
    IF HasColon(plugin_spec)
    THEN [plugin_name |-> BeforeColon(plugin_spec), action |-> AfterColon(plugin_spec)]
    ELSE [plugin_name |-> plugin_spec, action |-> EmptyStr]

\* ------------------------------------------------------------------ items
MenuItem(id, title, item_type, badge, plugin) ==
    [id |-> id, title |-> title, item_type |-> item_type, badge |-> badge, plugin |-> plugin]

SettingsName == << "settings" >>
PluginsName == << "plugins" >>
\* an installed (on-disk) third-party plugin, and a name no plugin has
FilesName == << "files" >>
GhostName == << "ghost" >>

\* SettingsPlugin.index and PluginsPlugin.index
SettingsIndex == << MenuItem(<< "settings" >>, << "Settings" >>, "SUBMENU", EmptyStr, SettingsName) >>

PluginsIndex == << MenuItem(<< "plugins" >>, << "Plugins" >>, "SUBMENU", EmptyStr, PluginsName) >>

\* what the third-party plugin indexes: an item whose action holds a colon
RecentItem ==
    MenuItem(<< "files", Colon, "recent", Colon, "today" >>, << "Recent" >>, "ACTION", << "3" >>, FilesName)

FilesIndex == << RecentItem >>

\* an informational row without an owning plugin
NotesItem == MenuItem(<< "notes", Colon, "readme" >>, << "Notes" >>, "INFO", EmptyStr, EmptyStr)

BundledPlugins == { SettingsName, PluginsName }
DiscoveredPlugins == BundledPlugins \cup { FilesName }

PluginIndex(name) ==
    CASE name = SettingsName -> SettingsIndex
      [] name = PluginsName -> PluginsIndex
      [] name = FilesName -> FilesIndex
      [] OTHER -> << >>

\* --------------------------------------------------------------- ItemStore
UseCount(usage, id) == IF id \in DOMAIN usage THEN usage[id] ELSE 0

RemoveAt(seq, k) == SubSeq(seq, 1, k - 1) \o SubSeq(seq, k + 1, Len(seq))

\* get_items(order_by_frequency=True): descending use count, ties in insertion order
RECURSIVE Ranked(_, _)
Ranked(items, usage) ==
    IF items = << >> THEN << >>
    ELSE LET best == CHOOSE k \in 1..Len(items) :
                        \A j \in 1..Len(items) :
                            /\ UseCount(usage, items[j].id) <= UseCount(usage, items[k].id)
                            /\ (j < k => UseCount(usage, items[j].id) < UseCount(usage, items[k].id))
         IN << items[best] >> \o Ranked(RemoveAt(items, best), usage)

GetItems(db, order_by_frequency) == IF order_by_frequency THEN Ranked(db.items, db.usage) ELSE db.items

\* the stored title with the submenu prefix stripped when it starts with it
StripPrefix(title, prefix) ==
    IF prefix # EmptyStr /\ Len(title) >= Len(prefix) /\ SubSeq(title, 1, Len(prefix)) = prefix
    THEN SubSeq(title, Len(prefix) + 1, Len(title))
    ELSE title

TitleMatches(item, title, prefix) == item.title = title \/ StripPrefix(item.title, prefix) = title

\* find_item_by_title: the position of the first matching row, 0 for not-found
FindItemByTitle(db, title, prefix) ==
    IF \E k \in 1..Len(db.items) : TitleMatches(db.items[k], title, prefix)
    THEN CHOOSE k \in 1..Len(db.items) :
            /\ TitleMatches(db.items[k], title, prefix)
            /\ \A j \in 1..(k - 1) : ~TitleMatches(db.items[j], title, prefix)
    ELSE 0

\* record_use(id): increments the counter, creating it if absent; no-op for an unknown id
RecordUse(db, id) ==
    IF \E k \in 1..Len(db.items) : db.items[k].id = id
    THEN [db EXCEPT !.usage = (id :> (UseCount(db.usage, id) + 1)) @@ db.usage]
    ELSE db

\* an id of the new rows is held by a row of a different plugin
Collides(db, plugin_name, items) ==
    \E k \in 1..Len(items), j \in 1..Len(db.items) :
        db.items[j].id = items[k].id /\ db.items[j].plugin # plugin_name

\* replace_items(plugin_name, items): the plugin's rows are removed, the new ones
\* appended; a cross-plugin id collision is a ValidationError and nothing is written
ReplaceItems_NoCheck(db, plugin_name, items) ==
    [db EXCEPT !.items = SelectSeq(db.items, LAMBDA it : it.plugin # plugin_name) \o items]

ReplaceItems(db, plugin_name, items) ==
    IF Collides(db, plugin_name, items)
    THEN db
    ELSE [db EXCEPT !.items = SelectSeq(db.items, LAMBDA it : it.plugin # plugin_name) \o items]

\* ---------------------------------------------------------- PluginRegistry
\* the order in which the loader holds its plugins: bundled first, then on-disk
LoadOrder == << SettingsName, PluginsName, FilesName >>

\* index_all(): every loaded plugin's index goes to replace_items; a plugin whose
\* index fails is skipped for this pass
RECURSIVE IndexFrom(_, _, _, _)
IndexFrom(db, loaded, failing, k) ==
    IF k > Len(LoadOrder) THEN db
    ELSE IF LoadOrder[k] \in loaded /\ LoadOrder[k] \notin failing
         THEN IndexFrom(ReplaceItems(db, LoadOrder[k], PluginIndex(LoadOrder[k])), loaded, failing, k + 1)
         ELSE IndexFrom(db, loaded, failing, k + 1)

IndexAll_DropsFailed(db, loaded, failing) ==
    IndexFrom([db EXCEPT !.items = SelectSeq(@, LAMBDA it : it.plugin \notin (loaded \cap failing))],
              loaded, failing, 1)

IndexAll(db, loaded, failing) == IndexFrom(db, loaded, failing, 1)

\* ------------------------------------------------------------ MenuBackend
BackendNames == { "rofi", "dmenu", "fzf", "stdout" }
DetectOrder == << "rofi", "dmenu", "fzf" >>

\* get_backend(name): the named backend when it is available, the first available
\* one of the detection order for no name, "" (None) otherwise
GetBackend(name, available) ==
    IF name # ""
    THEN IF name \in available THEN name ELSE ""
    ELSE IF \E k \in 1..Len(DetectOrder) : DetectOrder[k] \in available
         THEN DetectOrder[CHOOSE k \in 1..Len(DetectOrder) :
                             /\ DetectOrder[k] \in available
                             /\ \A j \in 1..(k - 1) : DetectOrder[j] \notin available]
         ELSE ""

\* ------------------------------------------------------------------ inputs
\* plugin[:action] specifiers given with -p; the empty string is "no -p"
PluginSpecs ==
    { SettingsName,
      << "files", Colon, "recent", Colon, "today" >>,
      << "ghost", Colon, "x" >> }

\* literal selections of a scripted chain
SelectionTitles == { << "Settings" >>, << "Recent" >>, << "Notes" >>, << "Nonexistent" >> }

Chains == UNION { [1..n -> SelectionTitles] : n \in 0..MaxSelections }

RunnerOptions ==
    [ backend : { "", "rofi" }, terminal : BOOLEAN, print_items : BOOLEAN, dry_run : BOOLEAN,
      rebuild : BOOLEAN, plugin : { EmptyStr } \cup PluginSpecs, selections : Chains ]

\* config.toml as Config.load finds it: absent, not parseable, or a table
ConfigFiles ==
    { [exists |-> FALSE, valid |-> TRUE, frequency_tracking |-> TRUE, backend |-> ""],
      [exists |-> TRUE, valid |-> FALSE, frequency_tracking |-> TRUE, backend |-> ""] }
    \cup [ exists : { TRUE }, valid : { TRUE }, frequency_tracking : BOOLEAN, backend : { "", "dmenu" } ]

SubmenuPrefix == << "-> " >>

\* config.py 64-66 and 118-120: the repositories when the file names none
OFFICIAL_REPO == << "markhedleyjones/menu-kit-plugins" >>

DefaultRepositories == << OFFICIAL_REPO >>

NoConfig ==
    [status |-> "unset", frequency_tracking |-> TRUE, menu_backend |-> "", submenu_prefix |-> SubmenuPrefix,
     repositories |-> DefaultRepositories]

\* Config.load: defaults for a missing file, from_dict for a table
ConfigLoad(file) ==
    IF ~file.exists
    THEN [status |-> "ok", frequency_tracking |-> TRUE, menu_backend |-> "", submenu_prefix |-> SubmenuPrefix,
          repositories |-> DefaultRepositories]
    ELSE [status |-> "ok", frequency_tracking |-> file.frequency_tracking,
          menu_backend |-> file.backend, submenu_prefix |-> SubmenuPrefix,
          repositories |-> DefaultRepositories]

\* what the on-disk item store holds from earlier runs
EmptyDb == [items |-> << >>, usage |-> << >>]

PersistedDbs ==
    { EmptyDb,
      [items |-> << NotesItem, RecentItem >>, usage |-> (RecentItem.id :> 2)] }

\* which menu programs are installed
AvailableSets == { {}, { "fzf", "stdout" }, BackendNames }

\* plugins whose construction fails in load_all, plugins whose index fails
LoadFailures == { {}, { FilesName }, DiscoveredPlugins }
IndexFailures == { {}, { FilesName } }

\* how a loaded plugin's run ends
RunOutcomes == { "ok", "raise" }

\* ------------------------------------------------------------------- state
VARIABLES
    options,        \* RunnerOptions
    config,         \* self.config
    database,       \* self.database: rows in insertion order, use counters
    backend,        \* self.backend: its name, "" for None
    loader,         \* self.loader: created, plugins (the loaded names)
    pc,             \* where Runner.run is
    mode,           \* the mode Runner.run entered
    pos,            \* scripted chain: index of the next selection
    loops,          \* interactive loop: completed iterations
    exit_code,      \* what Runner.run returned
    exception,      \* the exception that left Runner.run, "" for none
    resolved,       \* the find_item_by_title calls made, in order
    run_calls,      \* the loader.run_plugin calls made, in order
    record_calls,   \* the database.record_use calls made, in order
    shows,          \* the number of backend.show calls of the Runner
    last_result,    \* the MenuResult of the latest of them
    load_calls,     \* the number of load_all calls
    index_calls,    \* the number of index_all calls
    output,         \* what was printed, in order
    items_shown,    \* the items handed to the latest backend.show of the Runner
    skipped,        \* the loaded plugins whose index failed in the latest index_all
    last_op,        \* the latest ItemStore or PluginRegistry call and how it ended
    fs,             \* the plugin installation root and the directories links point to
    display_modes,  \* DisplayModeStore: the persisted mode per plugin name
    nav,            \* PluginsPlugin: the menus that are open, innermost last
    last_menu,      \* PluginsPlugin: the latest ctx.menu call and its answer
    last_note       \* PluginsPlugin: what the latest menu round notified, empty for nothing

vars ==
    << options, config, database, backend, loader, pc, mode, pos, loops, exit_code, exception,
       resolved, run_calls, record_calls, shows, last_result, load_calls, index_calls, output,
       items_shown, skipped, last_op, fs, display_modes, nav, last_menu, last_note >>

\* what the Runner does not touch: the registry's and the plugins plugin's state
registryVars == << last_op, fs, display_modes >>

menuVars == << nav, last_menu, last_note >>

\* the part of the state the modes work on
Cur ==
    [ pc |-> pc, exit_code |-> exit_code, exception |-> exception, pos |-> pos, loops |-> loops,
      database |-> database, resolved |-> resolved, run_calls |-> run_calls,
      record_calls |-> record_calls, shows |-> shows, last_result |-> last_result, output |-> output,
      items_shown |-> items_shown ]

Becomes(st) ==
    /\ pc' = st.pc
    /\ exit_code' = st.exit_code
    /\ exception' = st.exception
    /\ pos' = st.pos
    /\ loops' = st.loops
    /\ database' = st.database
    /\ resolved' = st.resolved
    /\ run_calls' = st.run_calls
    /\ record_calls' = st.record_calls
    /\ shows' = st.shows
    /\ last_result' = st.last_result
    /\ output' = st.output
    /\ items_shown' = st.items_shown

\* no menu was shown yet
NoResult == [cancelled |-> FALSE, selected |-> 0 - 1]

Line(stream, text, arg) == [stream |-> stream, text |-> text, arg |-> arg]

Printed(st, stream, text, arg) == [st EXCEPT !.output = Append(@, Line(stream, text, arg))]

\* return code
Return(st, code) == [st EXCEPT !.pc = "done", !.exit_code = code]

\* an exception nobody catches leaves Runner.run
Raise(st, what) == [st EXCEPT !.pc = "raised", !.exception = what]

\* no ItemStore or PluginRegistry call was made
NoOp == [op |-> "none", name |-> EmptyStr, arg |-> << >>, ok |-> TRUE, error |-> ""]

\* no ctx.menu call was made
NoMenu == [prompt |-> EmptyStr, items |-> << >>, selected |-> EmptyStr]

\* nothing installed on disk
EmptyFs == [root |-> << >>, outside |-> << >>]

Init ==
    /\ options \in RunnerOptions
    /\ config = NoConfig
    /\ database = EmptyDb
    /\ backend = ""
    /\ loader = [created |-> FALSE, plugins |-> {}]
    /\ pc = "setup_config"
    /\ mode = "none"
    /\ pos = 1
    /\ loops = 0
    /\ exit_code = NoCode
    /\ exception = ""
    /\ resolved = << >>
    /\ run_calls = << >>
    /\ record_calls = << >>
    /\ shows = 0
    /\ last_result = NoResult
    /\ load_calls = 0
    /\ index_calls = 0
    /\ output = << >>
    /\ items_shown = << >>
    /\ skipped = {}
    /\ last_op = NoOp
    /\ fs = EmptyFs
    /\ display_modes = << >>
    /\ nav = << >>
    /\ last_menu = NoMenu
    /\ last_note = EmptyStr

\* ------------------------------------------------------------ Runner.setup
\* Config.load (config.py 80-91) and Database(): an unparseable file raises in
\* tomllib.load and nothing in setup or run catches it
SetupConfig ==
    /\ pc = "setup_config"
    /\ \E file \in ConfigFiles, stored \in PersistedDbs :
        IF file.exists /\ ~file.valid
        THEN /\ Becomes(Raise(Cur, "TOMLDecodeError"))
             /\ config' = config
        ELSE /\ config' = ConfigLoad(file)
             /\ Becomes([Cur EXCEPT !.pc = "setup_backend", !.database = stored])
    /\ UNCHANGED << options, backend, loader, mode, load_calls, index_calls, skipped, registryVars, menuVars >>

\* the name handed to get_backend: runner.py 61-67
BackendName_OptionFirst(opts, cfg) ==
    IF opts.backend # "" THEN opts.backend
    ELSE IF opts.terminal THEN "fzf"
    ELSE IF opts.print_items THEN "stdout"
    ELSE cfg.menu_backend

BackendName(opts, cfg) ==
    IF opts.terminal THEN "fzf"
    ELSE IF opts.print_items THEN "stdout"
    ELSE IF opts.backend = "" THEN cfg.menu_backend
    ELSE opts.backend

\* runner.py 70-72: no backend, setup returns EXIT_NO_BACKEND and run returns it (85-87)
NoBackend_FallThrough(st) == [Printed(st, "stderr", "Error: No menu backend available", EmptyStr) EXCEPT !.pc = "setup_plugins"]

NoBackend(st) == Return(Printed(st, "stderr", "Error: No menu backend available", EmptyStr), EXIT_NO_BACKEND)

SetupBackend ==
    /\ pc = "setup_backend"
    /\ \E available \in AvailableSets :
        /\ backend' = GetBackend(BackendName(options, config), available)
        /\ IF backend' = ""
           THEN Becomes(NoBackend(Cur))
           ELSE Becomes([Cur EXCEPT !.pc = "setup_plugins"])
    /\ UNCHANGED << options, config, loader, mode, load_calls, index_calls, skipped, registryVars, menuVars >>

\* runner.py 74-81: the loader is made, load_all, then index_all
SetupPlugins ==
    /\ pc = "setup_plugins"
    /\ \E broken \in LoadFailures, failing \in IndexFailures :
        /\ loader' = [created |-> TRUE, plugins |-> DiscoveredPlugins \ broken]
        /\ Becomes([Cur EXCEPT !.pc = "dispatch",
                               !.database = IndexAll(database, DiscoveredPlugins \ broken, failing)])
        /\ skipped' = (DiscoveredPlugins \ broken) \cap failing
    /\ load_calls' = load_calls + 1
    /\ index_calls' = index_calls + 1
    /\ UNCHANGED << options, config, backend, mode, registryVars, menuVars >>

\* -------------------------------------------------------------- Runner.run
\* the mode run() takes after setup: runner.py 94-113
ModeOf_PrintFirst(opts) ==
    IF opts.print_items THEN "print"
    ELSE IF opts.rebuild THEN "rebuild"
    ELSE IF Truthy(opts.plugin) THEN "direct"
    ELSE IF opts.selections # << >> THEN "chain"
    ELSE "menu"

ModeOf(opts) ==
    IF opts.rebuild THEN "rebuild"
    ELSE IF Truthy(opts.plugin) THEN "direct"
    ELSE IF opts.selections # << >> THEN "chain"
    ELSE IF opts.print_items THEN "print"
    ELSE "menu"

\* runner.py 96: the rebuild is one more index_all over the store as it is
RebuildIndex_FromScratch(db, loaded, failing) == IndexAll(EmptyDb, loaded, failing)

RebuildIndex(db, loaded, failing) == IndexAll(db, loaded, failing)

\* runner.py 94-98
Rebuild_ThenMenu ==
    /\ pc = "dispatch"
    /\ ModeOf(options) = "rebuild"
    /\ mode' = "rebuild"
    /\ \E failing \in IndexFailures :
        /\ Becomes([Printed([Cur EXCEPT !.database = RebuildIndex(database, loader.plugins, failing)],
                            "stdout", "Cache rebuilt", EmptyStr) EXCEPT !.pc = "menu"])
        /\ skipped' = loader.plugins \cap failing
    /\ index_calls' = index_calls + 1
    /\ UNCHANGED << options, config, backend, loader, load_calls, registryVars, menuVars >>

Rebuild ==
    /\ pc = "dispatch"
    /\ ModeOf(options) = "rebuild"
    /\ mode' = "rebuild"
    /\ \E failing \in IndexFailures :
        /\ Becomes(Return(Printed([Cur EXCEPT !.database = RebuildIndex(database, loader.plugins, failing)],
                                  "stdout", "Cache rebuilt", EmptyStr),
                          EXIT_SUCCESS))
        /\ skipped' = loader.plugins \cap failing
    /\ index_calls' = index_calls + 1
    /\ UNCHANGED << options, config, backend, loader, load_calls, registryVars, menuVars >>

\* runner.py 100-113: the call of the mode's method
EnterMode ==
    /\ pc = "dispatch"
    /\ ModeOf(options) # "rebuild"
    /\ mode' = ModeOf(options)
    /\ Becomes([Cur EXCEPT !.pc = ModeOf(options)])
    /\ UNCHANGED << options, config, backend, loader, load_calls, index_calls, skipped, registryVars, menuVars >>

\* ------------------------------------------------------- loader.run_plugin
\* run_plugin(name, action): failure for a name that is not loaded, else the
\* plugin's run, whose exception is not caught
RunResult(name, outcome) == IF name \in loader.plugins THEN outcome ELSE "not_found"

Called(st, name, action, from, result) ==
    [st EXCEPT !.run_calls = Append(@, [plugin |-> name, action |-> action, from |-> from, result |-> result])]

\* the call as the Runner makes it: the exception of a plugin's run passes through
RunPlugin(st, name, action, from, outcome) ==
    LET result == RunResult(name, outcome)
        st1 == Called(st, name, action, from, result)
    IN IF result = "raise" THEN Raise(st1, "PluginError") ELSE st1

LastResult(st) == st.run_calls[Len(st.run_calls)].result

\* ------------------------------------------------------ Runner._run_plugin
\* runner.py 126-130: the dry-run report
DirectDryRun(st, parsed) ==
    LET st1 == Printed(st, "stdout", "Would run plugin", parsed.plugin_name)
        st2 == IF Truthy(parsed.action) THEN Printed(st1, "stdout", "With action", parsed.action) ELSE st1
    IN Return(st2, EXIT_SUCCESS)

\* runner.py 132-136: the call and what its result is turned into
DirectRun_IgnoreResult(st, plugin_spec, outcome) ==
    LET parsed == ParseSpec(plugin_spec)
        st1 == RunPlugin(st, parsed.plugin_name, parsed.action, plugin_spec, outcome)
    IN IF st1.pc = "raised" THEN st1 ELSE Return(st1, EXIT_SUCCESS)

DirectRun(st, plugin_spec, outcome) ==
    LET parsed == ParseSpec(plugin_spec)
        st1 == RunPlugin(st, parsed.plugin_name, parsed.action, plugin_spec, outcome)
    IN IF st1.pc = "raised" THEN st1
       ELSE IF LastResult(st1) = "not_found"
            THEN Return(Printed(st1, "stderr", "Plugin not found", parsed.plugin_name), EXIT_PLUGIN_NOT_FOUND)
            ELSE Return(st1, EXIT_SUCCESS)

\* runner.py 115-136
RunPluginDirect_IgnoresDryRun(st, plugin_spec, outcome) == DirectRun(st, plugin_spec, outcome)

RunPluginDirect(st, plugin_spec, outcome) ==
    IF options.dry_run
    THEN DirectDryRun(st, ParseSpec(plugin_spec))
    ELSE DirectRun(st, plugin_spec, outcome)

DirectPlugin ==
    /\ pc = "direct"
    /\ \E outcome \in RunOutcomes : Becomes(RunPluginDirect(Cur, options.plugin, outcome))
    /\ UNCHANGED << options, config, backend, loader, mode, load_calls, index_calls, skipped, registryVars, menuVars >>

\* -------------------------------------------------- executing a chosen item
\* runner.py 159-164 and 209-213: only an item with an owning plugin is run
Execute_Always(st, item, outcome) == RunPlugin(st, item.plugin, ItemAction(item.id), item.id, outcome)

Execute(st, item, outcome) ==
    IF Truthy(item.plugin)
    THEN RunPlugin(st, item.plugin, ItemAction(item.id), item.id, outcome)
    ELSE st

\* -------------------------------------------------- Runner._run_selections
\* runner.py 150-152: a miss ends the chain
OnMiss_Skip(st, selection) == Printed(st, "stderr", "Selection not found", selection)

OnMiss(st, selection) == Return(Printed(st, "stderr", "Selection not found", selection), EXIT_SELECTION_NOT_FOUND)

\* runner.py 154-156: dry-run reports the hit and goes on to the next selection
OnDryRun_FallThrough(st, item, outcome) == Execute(Printed(st, "stdout", "Would select", item.title), item, outcome)

OnDryRun(st, item, outcome) == Printed(st, "stdout", "Would select", item.title)

\* one iteration of the for loop: runner.py 146-164
ChainIteration_Records(st, selection, outcome) ==
    LET k == FindItemByTitle(st.database, selection, config.submenu_prefix)
        asked == [st EXCEPT !.resolved = Append(@, selection)]
        used == IF k # 0 /\ config.frequency_tracking
                THEN [asked EXCEPT !.record_calls = Append(@, st.database.items[k].id),
                                   !.database = RecordUse(@, st.database.items[k].id)]
                ELSE asked
        after == IF k = 0 THEN OnMiss(asked, selection)
                 ELSE IF options.dry_run THEN OnDryRun(used, st.database.items[k], outcome)
                 ELSE Execute(used, st.database.items[k], outcome)
    IN IF after.pc = "chain" THEN [after EXCEPT !.pos = @ + 1] ELSE after

ChainIteration(st, selection, outcome) ==
    LET k == FindItemByTitle(st.database, selection, config.submenu_prefix)
        asked == [st EXCEPT !.resolved = Append(@, selection)]
        after == IF k = 0 THEN OnMiss(asked, selection)
                 ELSE IF options.dry_run THEN OnDryRun(asked, st.database.items[k], outcome)
                 ELSE Execute(asked, st.database.items[k], outcome)
    IN IF after.pc = "chain" THEN [after EXCEPT !.pos = @ + 1] ELSE after

ChainStep ==
    /\ pc = "chain"
    /\ pos <= Len(options.selections)
    /\ \E outcome \in RunOutcomes : Becomes(ChainIteration(Cur, options.selections[pos], outcome))
    /\ UNCHANGED << options, config, backend, loader, mode, load_calls, index_calls, skipped, registryVars, menuVars >>

\* runner.py 166: the loop is through
ChainEnd ==
    /\ pc = "chain"
    /\ pos > Len(options.selections)
    /\ Becomes(Return(Cur, EXIT_SUCCESS))
    /\ UNCHANGED << options, config, backend, loader, mode, load_calls, index_calls, skipped, registryVars, menuVars >>

\* ------------------------------------------------------ Runner._print_items
\* runner.py 215-224
FormatItem_NoPrefix(item, prefix) ==
    IF Truthy(item.badge) THEN item.title \o << "  (" >> \o item.badge \o << ")" >> ELSE item.title

FormatItem(item, prefix) ==
    LET display == IF item.item_type = "SUBMENU" THEN prefix \o item.title ELSE item.title
    IN IF Truthy(item.badge) THEN display \o << "  (" >> \o item.badge \o << ")" >> ELSE display

RECURSIVE PrintedAll(_, _, _)
PrintedAll(st, items, prefix) ==
    IF items = << >> THEN st
    ELSE PrintedAll(Printed(st, "stdout", "", FormatItem(Head(items), prefix)), Tail(items), prefix)

\* runner.py 173 and 190: get_items(order_by_frequency=True)
RunnerItems_InsertionOrder(db) == GetItems(db, FALSE)

RunnerItems(db) == GetItems(db, TRUE)

\* runner.py 168-180
PrintItems ==
    /\ pc = "print"
    /\ Becomes(Return(PrintedAll(Cur, RunnerItems(database), config.submenu_prefix), EXIT_SUCCESS))
    /\ UNCHANGED << options, config, backend, loader, mode, load_calls, index_calls, skipped, registryVars, menuVars >>

\* ---------------------------------------------------------- Runner._run_menu
\* what backend.show may return for the items shown
MenuResults(items) == [cancelled : BOOLEAN, selected : 0..Len(items)]

\* runner.py 192-194: nothing to show
OnEmpty_ShowsAnyway(st) ==
    Return(Printed([st EXCEPT !.shows = @ + 1], "stdout", "No items in menu", EmptyStr), EXIT_CANCELLED)

OnEmpty(st) == Return(Printed(st, "stdout", "No items in menu", EmptyStr), EXIT_CANCELLED)

\* runner.py 199-200: the test for leaving the loop and the code returned
IsCancelled(result) == result.cancelled \/ result.selected = 0

CancelCode_NullIsSuccess(result) == IF result.cancelled THEN EXIT_CANCELLED ELSE EXIT_SUCCESS

CancelCode(result) == EXIT_CANCELLED

\* runner.py 204-206
Recorded(st, id) ==
    [st EXCEPT !.record_calls = Append(@, id), !.database = RecordUse(@, id)]

\* one iteration of the while loop: runner.py 189-213
MenuIteration(st, result, outcome) ==
    LET items == RunnerItems(st.database)
        shown == [st EXCEPT !.shows = @ + 1, !.last_result = result, !.items_shown = items]
    IN IF items = << >> THEN OnEmpty(st)
       ELSE IF IsCancelled(result) THEN Return(shown, CancelCode(result))
       ELSE LET item == items[result.selected]
                used == IF config.frequency_tracking THEN Recorded(shown, item.id) ELSE shown
                after == Execute(used, item, outcome)
            IN IF after.pc = "menu" THEN [after EXCEPT !.loops = @ + 1] ELSE after

MenuStep ==
    /\ pc = "menu"
    /\ loops < MaxLoop
    /\ \E result \in MenuResults(RunnerItems(database)), outcome \in RunOutcomes :
        Becomes(MenuIteration(Cur, result, outcome))
    /\ UNCHANGED << options, config, backend, loader, mode, load_calls, index_calls, skipped, registryVars, menuVars >>

\* ----------------------------------------------------------- specification
Next ==
    \/ SetupConfig
    \/ SetupBackend
    \/ SetupPlugins
    \/ Rebuild
    \/ EnterMode
    \/ DirectPlugin
    \/ ChainStep
    \/ ChainEnd
    \/ PrintItems
    \/ MenuStep

Spec == Init /\ [][Next]_vars

\* ------------------------------------------------------------- properties
Terminated == pc \in { "done", "raised" }

\* the stored row a selection resolves to, by find_item_by_title
Resolves(selection) == FindItemByTitle(database, selection, config.submenu_prefix) # 0

ResolvedItem(selection) == database.items[FindItemByTitle(database, selection, config.submenu_prefix)]

\* C1: in SCRIPTED_CHAIN mode the selections are resolved strictly in order, and
\* the first one find_item_by_title does not resolve ends the run with
\* EXIT_SELECTION_NOT_FOUND: it is the last one ever resolved, and no plugin is
\* run for it or for any later selection.
C1_ChainFailFast ==
    mode = "chain" =>
        /\ Len(resolved) <= Len(options.selections)
        /\ resolved = SubSeq(options.selections, 1, Len(resolved))
        /\ \A k \in 1..Len(resolved) :
              ~Resolves(resolved[k]) =>
                  /\ Len(resolved) = k
                  /\ pc = "done"
                  /\ exit_code = EXIT_SELECTION_NOT_FOUND
                  /\ Len(run_calls) < k

\* the chain of the spec's example: a hit that is run, a miss, a selection never tried
C1_Witness ==
    /\ mode = "chain"
    /\ Len(options.selections) = 3
    /\ Len(resolved) = 2
    /\ Len(run_calls) = 1
    /\ ~Resolves(resolved[2])
    /\ exit_code = EXIT_SELECTION_NOT_FOUND

\* C2: in INTERACTIVE_LOOP mode an empty item list ends the loop with
\* EXIT_CANCELLED without a backend.show, a record_use or a run_plugin call.
C2_EmptyMenuCancels ==
    (mode = "menu" /\ GetItems(database, TRUE) = << >>) =>
        /\ shows = 0
        /\ record_calls = << >>
        /\ run_calls = << >>
        /\ pc \in { "menu", "done" }
        /\ (pc = "done" => exit_code = EXIT_CANCELLED)
        /\ (pc = "menu" => loops = 0)

C2_Witness ==
    /\ mode = "menu"
    /\ database.items = << >>
    /\ pc = "done"
    /\ exit_code = EXIT_CANCELLED

\* C3: in INTERACTIVE_LOOP mode a backend result with cancelled=true and one with
\* cancelled=false and selected=null end the loop alike: the step that shows the
\* menu and gets either of them returns EXIT_CANCELLED, and records no use and
\* runs no plugin.
C3_NullSelectionIsCancel ==
    [][ ( /\ pc = "menu"
          /\ shows' = shows + 1
          /\ (last_result'.cancelled \/ last_result'.selected = 0) )
        => ( /\ pc' = "done"
             /\ exit_code' = EXIT_CANCELLED
             /\ exception' = ""
             /\ UNCHANGED << record_calls, run_calls, database, loops >> ) ]_vars

\* the second menu of a session is confirmed with no selection
C3_Witness ==
    /\ mode = "menu"
    /\ shows = 2
    /\ ~last_result.cancelled
    /\ last_result.selected = 0
    /\ record_calls # << >>
    /\ exit_code = EXIT_CANCELLED

LastCall(calls) == calls[Len(calls)]

\* C4: in INTERACTIVE_LOOP mode, when the run of the selected item's plugin
\* raises, the loop goes on: after the step in which run_plugin raised, the
\* Runner is back at the top of its loop, about to show the menu again.
C4_LoopSurvivesPluginError ==
    [][ ( /\ pc = "menu"
          /\ Len(run_calls') = Len(run_calls) + 1
          /\ LastCall(run_calls').result = "raise" )
        => pc' = "menu" ]_vars

\* the branch a finished run went through, and the exit code named after it
FailureBranch ==
    IF config.status # "ok" THEN "configuration-error"
    ELSE IF backend = "" THEN "no-backend-available"
    ELSE IF run_calls # << >> /\ LastCall(run_calls).result = "raise" THEN "execution-failed"
    ELSE IF mode = "direct" /\ run_calls # << >> /\ LastCall(run_calls).result = "not_found"
         THEN "plugin-not-found"
    ELSE IF mode = "chain" /\ resolved # << >> /\ ~Resolves(resolved[Len(resolved)])
         THEN "selection-not-found"
    ELSE IF mode = "menu" THEN "user-cancelled"
    ELSE "success"

CodeOfBranch(branch) ==
    CASE branch = "success" -> EXIT_SUCCESS
      [] branch = "user-cancelled" -> EXIT_CANCELLED
      [] branch = "selection-not-found" -> EXIT_SELECTION_NOT_FOUND
      [] branch = "plugin-not-found" -> EXIT_PLUGIN_NOT_FOUND
      [] branch = "execution-failed" -> EXIT_EXECUTION_FAILED
      [] branch = "configuration-error" -> EXIT_CONFIG_ERROR
      [] branch = "no-backend-available" -> EXIT_NO_BACKEND

\* C5: Runner.run ends every branch with the exit code named after it: a plugin
\* run that raises with EXIT_EXECUTION_FAILED, a configuration load failure with
\* EXIT_CONFIG_ERROR, and so on for the seven codes.
C5_ExitCodePerBranch == Terminated => exit_code = CodeOfBranch(FailureBranch)

\* C6: when setup resolves no backend, Runner.run returns EXIT_NO_BACKEND and
\* enters no mode: no loader, no load_all, no index_all, no menu, no plugin run,
\* no use recorded.
C6_NoBackendEndsRun ==
    (config.status = "ok" /\ pc # "setup_backend" /\ backend = "") =>
        /\ pc = "done"
        /\ exit_code = EXIT_NO_BACKEND
        /\ mode = "none"
        /\ ~loader.created
        /\ loader.plugins = {}
        /\ load_calls = 0
        /\ index_calls = 0
        /\ shows = 0
        /\ run_calls = << >>
        /\ record_calls = << >>
        /\ resolved = << >>

\* a run asked for a scripted chain and ended in setup
C6_Witness ==
    /\ exit_code = EXIT_NO_BACKEND
    /\ options.selections # << >>
    /\ ~options.rebuild
    /\ database.items # << >>

IsActionOf(a, s) ==
    IF \A k \in 1..Len(s) : s[k] # Colon
    THEN a = EmptyStr
    ELSE \E p \in 1..Len(s) :
            /\ s[p] = Colon
            /\ \A j \in 1..(p - 1) : s[j] # Colon
            /\ Len(a) = Len(s) - p
            /\ \A j \in 1..Len(a) : a[j] = s[p + j]

\* C8: the action of every run_plugin call the Runner makes (scripted chain,
\* interactive loop, direct specifier) is the part of the id or specifier after
\* its first colon, the empty string when there is none; further colons stay in
\* the action.
C8_ActionAfterFirstColon ==
    \A k \in 1..Len(run_calls) : IsActionOf(run_calls[k].action, run_calls[k].from)

\* the item files:recent:today is run from the menu with the action recent:today
C8_Witness ==
    /\ mode = "menu"
    /\ run_calls # << >>
    /\ LastCall(run_calls).from = << "files", Colon, "recent", Colon, "today" >>
    /\ LastCall(run_calls).action = << "recent", Colon, "today" >>

Owned(selection) == Resolves(selection) /\ Truthy(ResolvedItem(selection).plugin)

Inert(selection) == Resolves(selection) /\ ~Truthy(ResolvedItem(selection).plugin)

\* C9: in SCRIPTED_CHAIN mode (without dry-run) a selection that resolves to an
\* item with no owning plugin is a no-op: run_plugin is called only for the
\* resolved selections that have one, and after such a selection the chain goes
\* on to the next one, ending in EXIT_SUCCESS when it was the last.
C9_InertItemIsNoOp ==
    (mode = "chain" /\ ~options.dry_run) =>
        /\ \A k \in 1..Len(run_calls) : Truthy(run_calls[k].plugin)
        /\ Len(run_calls) = Cardinality({ k \in 1..Len(resolved) : Owned(resolved[k]) })
        /\ (resolved # << >> /\ Inert(resolved[Len(resolved)])) =>
              /\ pos = Len(resolved) + 1
              /\ exception = ""
              /\ pc \in { "chain", "done" }
              /\ (pc = "done" => exit_code = EXIT_SUCCESS /\ Len(resolved) = Len(options.selections))

\* "Notes" then "Recent": the first is inert, the second is run, the chain succeeds
C9_Witness ==
    /\ mode = "chain"
    /\ ~options.dry_run
    /\ Len(resolved) = 2
    /\ Inert(resolved[1])
    /\ Len(run_calls) = 1
    /\ exit_code = EXIT_SUCCESS

\* the number of dry-run reports printed
Reports == Cardinality({ k \in 1..Len(output) : output[k].text = "Would select" })

\* C10: in SCRIPTED_CHAIN mode with dry-run every resolved selection is reported
\* and nothing else: run_plugin is never called, the chain goes on, and a
\* selection that does not resolve still ends it with EXIT_SELECTION_NOT_FOUND.
C10_DryRunChainOnlyReports ==
    (mode = "chain" /\ options.dry_run) =>
        /\ run_calls = << >>
        /\ exception = ""
        /\ Reports = Cardinality({ k \in 1..Len(resolved) : Resolves(resolved[k]) })
        /\ (resolved # << >> /\ Resolves(resolved[Len(resolved)])) =>
              /\ pos = Len(resolved) + 1
              /\ pc \in { "chain", "done" }
              /\ (pc = "done" => exit_code = EXIT_SUCCESS /\ Len(resolved) = Len(options.selections))
        /\ (resolved # << >> /\ ~Resolves(resolved[Len(resolved)])) =>
              (pc = "done" /\ exit_code = EXIT_SELECTION_NOT_FOUND)

\* a dry run reports an item that has a plugin, then misses
C10_Witness ==
    /\ mode = "chain"
    /\ options.dry_run
    /\ Len(resolved) = 2
    /\ Owned(resolved[1])
    /\ Reports = 1
    /\ exit_code = EXIT_SELECTION_NOT_FOUND

\* C11: in SCRIPTED_CHAIN mode a run_plugin that returns failure (the item's
\* owning plugin is not loaded) is not absorbed: the chain does not return
\* EXIT_SUCCESS after it.
C11_ChainReportsFailedRun ==
    (mode = "chain" /\ \E k \in 1..Len(run_calls) : run_calls[k].result = "not_found") =>
        ~(pc = "done" /\ exit_code = EXIT_SUCCESS)

\* the item a menu result selects among the ranked items shown
Selected(result) == GetItems(database, TRUE)[result.selected]

\* C12: in INTERACTIVE_LOOP mode, for each non-null selection, record_use of the
\* item's id is called iff frequency tracking is enabled, and before the item's
\* plugin action is executed; after the execution the loop goes round again:
\* it fetches the ranked list and shows the top-level menu again.
C12_RecordThenRunThenShowAgain ==
    [][(pc = "menu" /\ shows' = shows + 1 /\ ~IsCancelled(last_result')) =>
          /\ record_calls' = IF config.frequency_tracking
                             THEN Append(record_calls, Selected(last_result').id)
                             ELSE record_calls
          /\ pc' = "menu"
          /\ loops' = loops + 1]_vars

\* ============================================================== ItemStore
\* The store driven by its callers' calls alone: replace_items by the indexing
\* of two plugins that may claim the same ids, record_use by selections.
MaxUses == 3
MaxBatch == 2

StoreOwners == { SettingsName, FilesName }

StoreIds == { << "settings" >>, << "files", Colon, "recent" >> }

StoreRow(id, owner) == MenuItem(id, id, "ACTION", EmptyStr, owner)

\* the rows one index pass of a plugin hands over: no id twice
Batches(owner) ==
    { [k \in 1..Len(ids) |-> StoreRow(ids[k], owner)] :
        ids \in { q \in UNION { [1..n -> StoreIds] : n \in 0..MaxBatch } :
                    \A i, j \in 1..Len(q) : q[i] = q[j] => i = j } }

NoOptions ==
    [ backend |-> "", terminal |-> FALSE, print_items |-> FALSE, dry_run |-> FALSE,
      rebuild |-> FALSE, plugin |-> EmptyStr, selections |-> << >> ]

\* the Runner is not running
RunnerIdle ==
    /\ options = NoOptions
    /\ backend = ""
    /\ mode = "none"
    /\ pos = 1
    /\ loops = 0
    /\ exit_code = NoCode
    /\ exception = ""
    /\ resolved = << >>
    /\ run_calls = << >>
    /\ record_calls = << >>
    /\ shows = 0
    /\ last_result = NoResult
    /\ load_calls = 0
    /\ index_calls = 0
    /\ output = << >>
    /\ items_shown = << >>
    /\ skipped = {}

runnerVars ==
    << options, backend, mode, pos, loops, exit_code, exception, resolved, run_calls,
       record_calls, shows, last_result, load_calls, index_calls, output, items_shown, skipped >>

\* Config.load of a missing file: config.py 88-89
DefaultConfig == ConfigLoad([exists |-> FALSE, valid |-> TRUE, frequency_tracking |-> TRUE, backend |-> ""])

StoreInit ==
    /\ RunnerIdle
    /\ config = DefaultConfig
    /\ pc = "store"
    /\ database = EmptyDb
    /\ loader = [created |-> FALSE, plugins |-> {}]
    /\ last_op = NoOp
    /\ fs = EmptyFs
    /\ display_modes = << >>
    /\ nav = << >>
    /\ last_menu = NoMenu
    /\ last_note = EmptyStr

\* a call of replace_items and how it ended
StoreReplaceItems ==
    /\ pc = "store"
    /\ \E owner \in StoreOwners :
        \E batch \in Batches(owner) :
            /\ database' = ReplaceItems(database, owner, batch)
            /\ last_op' = [op |-> "replace_items", name |-> owner, arg |-> batch,
                           ok |-> ~Collides(database, owner, batch),
                           error |-> IF Collides(database, owner, batch) THEN "ValidationError" ELSE ""]
    /\ UNCHANGED << runnerVars, config, pc, loader, fs, display_modes, menuVars >>

\* a call of record_use
StoreRecordUse ==
    /\ pc = "store"
    /\ \E id \in StoreIds :
        /\ UseCount(database.usage, id) < MaxUses
        /\ database' = RecordUse(database, id)
        /\ last_op' = [op |-> "record_use", name |-> id, arg |-> << >>, ok |-> TRUE, error |-> ""]
    /\ UNCHANGED << runnerVars, config, pc, loader, fs, display_modes, menuVars >>

StoreNext ==
    \/ StoreReplaceItems
    \/ StoreRecordUse

StoreSpec == StoreInit /\ [][StoreNext]_vars

\* no id is held by rows of two plugins
UniqueIds(db) ==
    \A i, j \in 1..Len(db.items) :
        db.items[i].id = db.items[j].id => db.items[i].plugin = db.items[j].plugin

\* C13: after any sequence of replace_items calls for distinct plugin names,
\* rejected ones included, no two stored items share an id while owned by
\* different plugins; a replace_items call whose rows collide with a row of
\* another plugin fails with ValidationError and leaves the store as it was.
C13_UniqueIdsAcrossPlugins ==
    /\ [](UniqueIds(database))
    /\ [][(last_op'.op = "replace_items" /\ Collides(database, last_op'.name, last_op'.arg)) =>
             (last_op'.error = "ValidationError" /\ ~last_op'.ok /\ database' = database)]_vars

C13_Witness ==
    /\ last_op.op = "replace_items"
    /\ last_op.error = "ValidationError"
    /\ \E k \in 1..Len(database.items), j \in 1..Len(last_op.arg) :
        database.items[k].id = last_op.arg[j].id /\ database.items[k].plugin # last_op.name
    /\ \E k \in 1..Len(database.items) : database.items[k].plugin = last_op.name

\* row a of the store comes before row b in the ranking: more uses, or as many
\* and inserted earlier
RankedBefore(db, a, b) ==
    \/ UseCount(db.usage, db.items[a].id) > UseCount(db.usage, db.items[b].id)
    \/ /\ UseCount(db.usage, db.items[a].id) = UseCount(db.usage, db.items[b].id)
       /\ a < b

\* list holds rows, what is presented of each row of the store, in ranking order
IsRanking(list, db, rows) ==
    /\ Len(list) = Len(rows)
    /\ \A a, b \in 1..Len(db.items) :
        RankedBefore(db, a, b) =>
            \E i, j \in 1..Len(list) : i < j /\ list[i] = rows[a] /\ list[j] = rows[b]

PrintedRows(db) ==
    [k \in 1..Len(db.items) |-> Line("stdout", "", FormatItem(db.items[k], config.submenu_prefix))]

\* C14: the items PRINT prints and INTERACTIVE_LOOP shows are those of
\* get_items(order_by_frequency=true): in descending order of use count, items
\* with equal counts in insertion order, so every used item (one recorded 3
\* times, say) is ahead of every never-used item.
C14_RankedByFrequency ==
    [][/\ shows' = shows + 1 => IsRanking(items_shown', database, database.items)
       /\ (pc = "print" /\ pc' = "done") => IsRanking(output', database, PrintedRows(database))]_vars

\* the second menu of a run shows the item used 3 times first, ahead of the
\* never-used item that was stored before it
C14_Witness ==
    /\ mode = "menu"
    /\ shows = 2
    /\ record_calls = << RecentItem.id >>
    /\ UseCount(database.usage, RecentItem.id) = 3
    /\ items_shown[1] = RecentItem
    /\ database.items[1] = NotesItem
    /\ UseCount(database.usage, NotesItem.id) = 0

ItemSet(db) == { db.items[k] : k \in 1..Len(db.items) }

\* C15: index_all() run a second time with no change in the plugins (REBUILD
\* mode runs it once in setup and once more in the mode, with the same plugins
\* loaded and the same ones failing to index) yields the same item set and
\* keeps every usage count.
C15_ReindexIsIdempotent ==
    [][(pc = "dispatch" /\ mode' = "rebuild" /\ skipped' = skipped) =>
          /\ ItemSet(database') = ItemSet(database)
          /\ database'.usage = database.usage]_vars

C15_Witness ==
    /\ mode = "rebuild"
    /\ pc = "done"
    /\ index_calls = 2
    /\ skipped = {}
    /\ loader.plugins = DiscoveredPlugins
    /\ ItemSet(database) = { NotesItem, RecentItem } \cup ItemSet([items |-> SettingsIndex \o PluginsIndex])
    /\ UseCount(database.usage, RecentItem.id) = 2

\* the rows a plugin owns in the store, in order
RowsOf(db, name) == SelectSeq(db.items, LAMBDA it : it.plugin = name)

\* C16: in an index_all pass a plugin whose index fails is skipped for that
\* pass only: it stays loaded, the rows it had stored are left as they were,
\* and every other loaded plugin is still indexed.
C16_FailedIndexIsSkipped ==
    [][index_calls' = index_calls + 1 =>
          /\ \A name \in skipped' :
                /\ name \in loader'.plugins
                /\ RowsOf(database', name) = RowsOf(database, name)
          /\ \A name \in loader'.plugins \ skipped' :
                RowsOf(database', name) = PluginIndex(name)]_vars

\* the files plugin failed to index, its row of an earlier run is still
\* stored, and the bundled plugins were indexed
C16_Witness ==
    /\ index_calls >= 1
    /\ skipped = { FilesName }
    /\ FilesName \in loader.plugins
    /\ RowsOf(database, FilesName) = << RecentItem >>
    /\ RowsOf(database, SettingsName) = SettingsIndex
    /\ RowsOf(database, PluginsName) = PluginsIndex

\* ========================================================== PluginsPlugin
\* ---------------------------------------------------------------- strings
StartsWith(s, prefix) == Len(s) >= Len(prefix) /\ SubSeq(s, 1, Len(prefix)) = prefix

EndsWith(s, suffix) == Len(s) >= Len(suffix) /\ SubSeq(s, Len(s) - Len(suffix) + 1, Len(s)) = suffix

\* s.replace(old, ""): every occurrence of old is taken out, left to right
RECURSIVE Removed(_, _)
Removed(s, old) ==
    IF s = << >> \/ old = << >> THEN s
    ELSE IF StartsWith(s, old) THEN Removed(SubSeq(s, Len(old) + 1, Len(s)), old)
    ELSE << Head(s) >> \o Removed(Tail(s), old)

\* str.title() of the names in use
TitleWord(word) ==
    CASE word = "settings" -> "Settings"
      [] word = "plugins" -> "Plugins"
      [] word = "files" -> "Files"
      [] OTHER -> word

Title(s) == [k \in 1..Len(s) |-> TitleWord(s[k])]

\* ------------------------------------------------------- DisplayModeStore
\* get_mode: the persisted mode, submenu when none is
GetMode(modes, name) == IF name \in DOMAIN modes THEN modes[name] ELSE "submenu"

\* set_mode: persisted under the name, whatever the name
SetMode(modes, name, value) == (name :> value) @@ modes

\* --------------------------------------------- ctx.get_installed_plugins
\* a third-party plugin that is installed by hand
MyPluginName == << "my-plugin" >>

\* sorted(installed.items()): the loaded plugins by name
SortedNames == << FilesName, MyPluginName, PluginsName, SettingsName >>

Installed_FromDisk(loaded) ==
    SelectSeq(SortedNames, LAMBDA name : name \in BundledPlugins \cup DOMAIN fs.root)

Installed(loaded) == SelectSeq(SortedNames, LAMBDA name : name \in loaded)

\* info.version of a loaded plugin
Version(name) == IF name \in BundledPlugins THEN << "0.0.1" >> ELSE << "1.2.0" >>

\* ------------------------------------------------------------- the menus
\* _show_main_menu: plugins.py 33-51
MainItems(loaded) ==
    << MenuItem(<< "plugins", Colon, "installed" >>, << "Installed" >>, "SUBMENU",
                << ToString(Cardinality(loaded)) >>, EmptyStr),
       MenuItem(<< "plugins", Colon, "browse" >>, << "Browse Plugins" >>, "SUBMENU", EmptyStr, EmptyStr),
       MenuItem(<< "plugins", Colon, "updates" >>, << "Check for Updates" >>, "ACTION", EmptyStr, EmptyStr) >>

\* _show_installed: plugins.py 72-90
InfoPrefix == << "plugins", Colon, "info", Colon >>

Source_AlwaysInstalled(name) == "installed"

Source(name) == IF name \in BundledPlugins THEN "bundled" ELSE "installed"

InstalledItem(name, modes) ==
    MenuItem(InfoPrefix \o name, name, "ACTION",
             Version(name) \o << " (", Source(name), ") | ", GetMode(modes, name) >>, EmptyStr)

InstalledItems(loaded, modes) ==
    [k \in 1..Len(Installed(loaded)) |-> InstalledItem(Installed(loaded)[k], modes)]

\* _show_plugin_options: plugins.py 113-147
OptPrefix == << "plugins", Colon, "opt", Colon >>

ToggleItem(name, current) ==
    IF current = "inline"
    THEN MenuItem(OptPrefix \o name \o << Colon, "toggle" >>, << "Change to Submenu" >>, "ACTION",
                  << "currently inline" >>, EmptyStr)
    ELSE MenuItem(OptPrefix \o name \o << Colon, "toggle" >>, << "Change to Inline" >>, "ACTION",
                  << "currently submenu" >>, EmptyStr)

UninstallItem(name) ==
    MenuItem(OptPrefix \o name \o << Colon, "uninstall" >>, << "Uninstall" >>, "ACTION", EmptyStr, EmptyStr)

OptionsItems_UninstallForAll(name, current) ==
    << MenuItem(OptPrefix \o name \o << Colon, "info" >>, << "Info" >>, "INFO", << "v" >> \o Version(name), EmptyStr),
       ToggleItem(name, current),
       UninstallItem(name) >>

OptionsItems(name, current) ==
    << MenuItem(OptPrefix \o name \o << Colon, "info" >>, << "Info" >>, "INFO", << "v" >> \o Version(name), EmptyStr),
       ToggleItem(name, current) >>
    \o (IF name \notin BundledPlugins THEN << UninstallItem(name) >> ELSE << >>)

\* plugins.py 155-159
Toggled_AlwaysInline(current) == "inline"

Toggled(current) == IF current = "inline" THEN "submenu" ELSE "inline"

\* _show_browse: plugins.py 171-189
RepoPrefix == << "plugins", Colon, "repo", Colon >>

RepoItem_TitledByPath(repo) ==
    MenuItem(RepoPrefix \o repo, repo, "SUBMENU", EmptyStr, EmptyStr)

RepoItem(repo) ==
    MenuItem(RepoPrefix \o repo, IF repo = OFFICIAL_REPO THEN << "Official" >> ELSE repo, "SUBMENU",
             EmptyStr, EmptyStr)

BrowseItems(repos) ==
    << MenuItem(<< "plugins", Colon, "browse", Colon, "info" >>,
                << "Connect to repository to browse plugins" >>, "INFO", EmptyStr, EmptyStr) >>
    \o [k \in 1..Len(repos) |-> RepoItem(repos[k])]

\* ctx.menu(items, prompt): the backend is shown the items; the answer is one of
\* them or None (0)
Choices(items) == 0..Len(items)

Selection(items, choice) == IF choice = 0 THEN EmptyStr ELSE items[choice].id

Captured(prompt, items, choice) ==
    [prompt |-> prompt, items |-> items, selected |-> Selection(items, choice)]

Frame(menu, plugin) == [menu |-> menu, plugin |-> plugin]

Top == nav[Len(nav)]

Popped_ToCaller == << >>

Popped == SubSeq(nav, 1, Len(nav) - 1)

InMenu(menu) == pc = "plugins" /\ nav # << >> /\ Top.menu = menu

\* the action strings PluginsPlugin.run is given
RunActions == { EmptyStr, << "installed" >>, << "browse" >>, << "updates" >> }

\* plugins.py 21-28: the menu run() opens
EntryMenu(action) ==
    IF action = << "installed" >> THEN "installed"
    ELSE IF action = << "browse" >> THEN "browse"
    ELSE "main"

PluginsRun ==
    /\ pc = "plugins"
    /\ nav = << >>
    /\ \E action \in RunActions : nav' = << Frame(EntryMenu(action), EmptyStr) >>
    /\ UNCHANGED << runnerVars, config, pc, database, loader, registryVars, last_menu, last_note >>

\* one round of the while loop of _show_main_menu: plugins.py 32-62
MainMenuStep ==
    /\ InMenu("main")
    /\ LET items == MainItems(loader.plugins)
       IN \E choice \in Choices(items) :
            /\ last_menu' = Captured(<< "Plugins" >>, items, choice)
            /\ IF choice = 0
               THEN nav' = Popped /\ last_note' = EmptyStr
               ELSE IF items[choice].id = << "plugins", Colon, "installed" >>
               THEN nav' = Append(nav, Frame("installed", EmptyStr)) /\ last_note' = EmptyStr
               ELSE IF items[choice].id = << "plugins", Colon, "browse" >>
               THEN nav' = Append(nav, Frame("browse", EmptyStr)) /\ last_note' = EmptyStr
               ELSE IF items[choice].id = << "plugins", Colon, "updates" >>
               THEN nav' = nav /\ last_note' = << "Update check not yet implemented" >>
               ELSE nav' = nav /\ last_note' = EmptyStr
    /\ UNCHANGED << runnerVars, config, pc, database, loader, registryVars >>

\* one round of the while loop of _show_installed: plugins.py 68-98; the options
\* of a name that is not installed return at once (plugins.py 107-110)
InstalledMenuStep ==
    /\ InMenu("installed")
    /\ LET items == InstalledItems(loader.plugins, display_modes)
       IN \E choice \in Choices(items) :
            /\ last_menu' = Captured(<< "Installed Plugins" >>, items, choice)
            /\ IF choice = 0
               THEN nav' = Popped
               ELSE LET plugin_name == Removed(items[choice].id, InfoPrefix)
                    IN IF plugin_name \in loader.plugins
                       THEN nav' = Append(nav, Frame("options", plugin_name))
                       ELSE nav' = nav
    /\ last_note' = EmptyStr
    /\ UNCHANGED << runnerVars, config, pc, database, loader, registryVars >>

\* one round of the while loop of _show_plugin_options: plugins.py 112-163
OptionsMenuStep ==
    /\ InMenu("options")
    /\ LET plugin_name == Top.plugin
           current_mode == GetMode(display_modes, plugin_name)
           items == OptionsItems(plugin_name, current_mode)
       IN \E choice \in Choices(items) :
            /\ last_menu' = Captured(Title(plugin_name), items, choice)
            /\ IF choice = 0
               THEN nav' = Popped /\ display_modes' = display_modes /\ last_note' = EmptyStr
               ELSE IF EndsWith(items[choice].id, << Colon, "toggle" >>)
               THEN /\ nav' = nav
                    /\ display_modes' = SetMode(display_modes, plugin_name, Toggled(current_mode))
                    /\ last_note' = << "Display mode changed to ", Toggled(current_mode) >>
               ELSE IF EndsWith(items[choice].id, << Colon, "uninstall" >>)
               THEN /\ nav' = nav
                    /\ display_modes' = display_modes
                    /\ last_note' = << "Uninstall not yet implemented" >>
               ELSE nav' = nav /\ display_modes' = display_modes /\ last_note' = EmptyStr
    /\ UNCHANGED << runnerVars, config, pc, database, loader, last_op, fs >>

\* one round of the while loop of _show_browse: plugins.py 170-196
BrowseMenuStep ==
    /\ InMenu("browse")
    /\ LET items == BrowseItems(config.repositories)
       IN \E choice \in Choices(items) :
            /\ last_menu' = Captured(<< "Browse Plugins" >>, items, choice)
            /\ IF choice = 0
               THEN nav' = Popped /\ last_note' = EmptyStr
               ELSE IF StartsWith(items[choice].id, RepoPrefix)
               THEN nav' = nav /\ last_note' = << "Repository browsing not yet implemented" >>
               ELSE nav' = nav /\ last_note' = EmptyStr
    /\ UNCHANGED << runnerVars, config, pc, database, loader, registryVars >>

\* ------------------------------------------- the plugin installation root
\* The directory get_data_dir()/plugins: per name a real directory with its
\* files or a symlink to a directory elsewhere; outside holds those directories.
ModuleFile == "__init__.py"

RealDir(files) == [kind |-> "dir", target |-> EmptyStr, files |-> files]

Symlink(target) == [kind |-> "symlink", target |-> target, files |-> {}]

Without(entries, key) ==
    IF DOMAIN entries \ { key } = {} THEN << >> ELSE [k \in DOMAIN entries \ { key } |-> entries[k]]

With(entries, key, entry) == (key :> entry) @@ entries

Outcome(f, ok, error) == [fs |-> f, ok |-> ok, error |-> error]

\* where an install may fail: the fetch, the directory creation, the write
InstallFailures == { "none", "fetch", "mkdir", "write" }

\* install(repo_id, plugin_name, descriptor): fetch; create the directory, an
\* InstallError if the name exists; write the entry module; a failure after the
\* directory was made removes it again
Install_NoCleanup(f, name, failure) ==
    IF failure = "fetch" THEN Outcome(f, FALSE, "InstallError")
    ELSE IF name \in DOMAIN f.root THEN Outcome(f, FALSE, "InstallError")
    ELSE IF failure = "mkdir" THEN Outcome(f, FALSE, "InstallError")
    ELSE IF failure = "write"
         THEN Outcome([f EXCEPT !.root = With(@, name, RealDir({}))], FALSE, "InstallError")
         ELSE Outcome([f EXCEPT !.root = With(@, name, RealDir({ ModuleFile }))], TRUE, "")

Install_Overwrites(f, name, failure) ==
    IF failure = "fetch" THEN Outcome(f, FALSE, "InstallError")
    ELSE IF failure = "mkdir" THEN Outcome(f, FALSE, "InstallError")
    ELSE IF failure = "write" THEN Outcome(f, FALSE, "InstallError")
    ELSE Outcome([f EXCEPT !.root = With(@, name, RealDir({ ModuleFile }))], TRUE, "")

Install(f, name, failure) ==
    LET made == [f EXCEPT !.root = With(@, name, RealDir({}))]
        cleaned == [made EXCEPT !.root = Without(@, name)]
        written == [made EXCEPT !.root = With(@, name, RealDir({ ModuleFile }))]
    IN IF failure = "fetch" THEN Outcome(f, FALSE, "InstallError")
       ELSE IF name \in DOMAIN f.root THEN Outcome(f, FALSE, "InstallError")
       ELSE IF failure = "mkdir" THEN Outcome(f, FALSE, "InstallError")
       ELSE IF failure = "write" THEN Outcome(cleaned, FALSE, "InstallError")
       ELSE Outcome(written, TRUE, "")

\* uninstall(plugin_name): refused for a bundled name; a symlink is unlinked and
\* its target left alone; a real directory is removed with what it holds;
\* NotFoundError when nothing of that name is installed
Uninstall(f, name) ==
    IF name \in BundledPlugins THEN Outcome(f, FALSE, "")
    ELSE IF name \notin DOMAIN f.root THEN Outcome(f, FALSE, "NotFoundError")
    ELSE IF f.root[name].kind = "symlink"
         THEN Outcome([root |-> Without(f.root, name), outside |-> f.outside], TRUE, "")
         ELSE Outcome([f EXCEPT !.root = Without(@, name)], TRUE, "")

InstallNames == { FilesName, MyPluginName }

\* the link target set up for a symlinked plugin
SourceDir == << "source-plugin" >>

\* what the installation root holds at start: nothing, the files plugin as a
\* real directory, the files plugin as a symlink to a source tree
InitialFs ==
    { EmptyFs,
      [root |-> (FilesName :> RealDir({ ModuleFile, "README.md" })), outside |-> << >>],
      [root |-> (FilesName :> Symlink(SourceDir)), outside |-> (SourceDir :> { ModuleFile })] }

\* config.plugins.repositories of the config file
RepoLists == { DefaultRepositories, << OFFICIAL_REPO, << "someone/extras" >> >> }

\* the process has loaded the bundled plugins and what was on disk (load_all)
PluginsInit ==
    /\ RunnerIdle
    /\ pc = "plugins"
    /\ \E repos \in RepoLists : config = [DefaultConfig EXCEPT !.repositories = repos]
    /\ database = EmptyDb
    /\ fs \in InitialFs
    /\ loader = [created |-> TRUE, plugins |-> BundledPlugins \cup DOMAIN fs.root]
    /\ last_op = NoOp
    /\ display_modes = << >>
    /\ nav = << >>
    /\ last_menu = NoMenu
    /\ last_note = EmptyStr

\* a call of install, between two runs of the plugin; the loaded set is as it was
RegistryInstall ==
    /\ pc = "plugins"
    /\ nav = << >>
    /\ \E name \in InstallNames, failure \in InstallFailures :
        /\ fs' = Install(fs, name, failure).fs
        /\ last_op' = [op |-> "install", name |-> name, arg |-> << failure >>,
                       ok |-> Install(fs, name, failure).ok, error |-> Install(fs, name, failure).error]
    /\ UNCHANGED << runnerVars, config, pc, database, loader, display_modes, menuVars >>

\* a call of uninstall
RegistryUninstall ==
    /\ pc = "plugins"
    /\ nav = << >>
    /\ \E name \in BundledPlugins \cup InstallNames :
        /\ fs' = Uninstall(fs, name).fs
        /\ last_op' = [op |-> "uninstall", name |-> name, arg |-> << >>,
                       ok |-> Uninstall(fs, name).ok, error |-> Uninstall(fs, name).error]
    /\ UNCHANGED << runnerVars, config, pc, database, loader, display_modes, menuVars >>

PluginsNext ==
    \/ PluginsRun
    \/ MainMenuStep
    \/ InstalledMenuStep
    \/ OptionsMenuStep
    \/ BrowseMenuStep
    \/ RegistryInstall
    \/ RegistryUninstall

PluginsSpec == PluginsInit /\ [][PluginsNext]_vars

\* this step is a selection of the Uninstall item in the options of Top.plugin
SelectsUninstall ==
    /\ InMenu("options")
    /\ last_menu'.selected = OptPrefix \o Top.plugin \o << Colon, "uninstall" >>

\* C17: uninstalling a plugin whose installed path is a symlink succeeds and
\* removes the symlink only, the link target and what it holds stay; uninstalling
\* a plugin that is a real directory removes the directory and what it holds.
C17_UninstallRemovesPlugin ==
    [][(SelectsUninstall /\ Top.plugin \in DOMAIN fs.root) =>
          /\ Top.plugin \notin DOMAIN fs'.root
          /\ fs'.outside = fs.outside]_vars

\* this step is a registry call of the given kind: no menu moved
RegistryStep(op) == nav = << >> /\ last_op'.op = op /\ UNCHANGED menuVars

OptionsOf(capture, name) ==
    /\ capture.prompt = Title(name)
    /\ capture.items # << >>
    /\ capture.items[1].id = OptPrefix \o name \o << Colon, "info" >>

OffersUninstall(capture) ==
    \E k \in 1..Len(capture.items) : EndsWith(capture.items[k].id, << Colon, "uninstall" >>)

\* C19: uninstall of "settings" or "plugins" always fails and changes nothing
\* on the filesystem, and the options menu of a bundled plugin never holds an
\* Uninstall item (that of every other installed plugin does).
C19_BundledCannotBeUninstalled ==
    /\ [](\A name \in loader.plugins :
            OptionsOf(last_menu, name) => (OffersUninstall(last_menu) <=> name \notin BundledPlugins))
    /\ [][(RegistryStep("uninstall") /\ last_op'.name \in BundledPlugins) =>
             (~last_op'.ok /\ fs' = fs)]_vars

\* the options of a bundled plugin were shown, and an uninstall of a bundled
\* plugin was refused while a plugin is installed on disk
C19_Witness ==
    /\ \E name \in BundledPlugins : OptionsOf(last_menu, name)
    /\ last_op.op = "uninstall"
    /\ last_op.name \in BundledPlugins
    /\ ~last_op.ok
    /\ FilesName \in DOMAIN fs.root

Listed(capture) == { capture.items[k].title : k \in 1..Len(capture.items) }

IsInstalledMenu(capture) == capture.prompt = << "Installed Plugins" >>

ModeBadge(value) == IF value = "inline" THEN << "currently inline" >> ELSE << "currently submenu" >>

Opposite(value) == IF value = "inline" THEN "submenu" ELSE "inline"

SelectsToggle == last_menu'.selected = OptPrefix \o Top.plugin \o << Colon, "toggle" >>

\* C22: the display mode of a plugin is submenu until it is set; each toggle
\* selected in the options menu of a plugin persists the opposite mode for that
\* plugin and for no other; every rendering of the options menu tells the mode
\* as it is persisted then, so the rendering after a toggle tells the new mode;
\* two toggles bring the first mode back.
C22_ToggleFlipsDisplayMode ==
    /\ [](\A name \in DiscoveredPlugins : name \notin DOMAIN display_modes => GetMode(display_modes, name) = "submenu")
    /\ [][InMenu("options") =>
             /\ last_menu'.items[2].badge = ModeBadge(GetMode(display_modes, Top.plugin))
             /\ IF SelectsToggle
                THEN /\ GetMode(display_modes', Top.plugin) = Opposite(GetMode(display_modes, Top.plugin))
                     /\ Opposite(GetMode(display_modes', Top.plugin)) = GetMode(display_modes, Top.plugin)
                     /\ \A name \in DiscoveredPlugins \ { Top.plugin } :
                            GetMode(display_modes', name) = GetMode(display_modes, name)
                ELSE display_modes' = display_modes]_vars

\* the second toggle of the files plugin was just selected: the menu it was
\* selected in told inline, and submenu is persisted again
C22_Witness ==
    /\ nav # << >>
    /\ Top = Frame("options", FilesName)
    /\ last_menu.selected = OptPrefix \o FilesName \o << Colon, "toggle" >>
    /\ last_menu.items[2].badge = << "currently inline" >>
    /\ FilesName \in DOMAIN display_modes
    /\ display_modes[FilesName] = "submenu"
    /\ DOMAIN display_modes = { FilesName }

\* the prompt of the menu a frame shows
PromptOf(frame) ==
    CASE frame.menu = "main" -> << "Plugins" >>
      [] frame.menu = "installed" -> << "Installed Plugins" >>
      [] frame.menu = "browse" -> << "Browse Plugins" >>
      [] OTHER -> Title(frame.plugin)

\* the open menus are nested as the code nests them
WellNested ==
    \A k \in 1..Len(nav) :
        /\ nav[k].menu = "main" => k = 1
        /\ (nav[k].menu \in { "installed", "browse" } /\ k > 1) => nav[k - 1].menu = "main"
        /\ nav[k].menu = "options" => (k > 1 /\ nav[k - 1].menu = "installed")

\* C23: nested navigation in the plugins plugin backs out one level at a
\* time: each round shows the innermost open menu; a null selection closes that
\* menu only, so its parent is the one shown next; no other selection closes a
\* menu; and a run that opened the main Plugins menu returns to its caller only
\* by a null selection in that main menu.
C23_BackOutOneLevel ==
    /\ [](WellNested)
    /\ [][nav # << >> =>
             /\ last_menu'.prompt = PromptOf(nav[Len(nav)])
             /\ last_menu'.selected = EmptyStr => nav' = SubSeq(nav, 1, Len(nav) - 1)
             /\ last_menu'.selected # EmptyStr => Len(nav') >= Len(nav)
             /\ (nav' = << >> /\ nav[1].menu = "main") =>
                    (Len(nav) = 1 /\ last_menu'.prompt = << "Plugins" >> /\ last_menu'.selected = EmptyStr)]_vars

\* the options of a plugin were just left by a null selection: the Installed
\* Plugins menu under the main menu is the innermost one again
C23_Witness ==
    /\ nav = << Frame("main", EmptyStr), Frame("installed", EmptyStr) >>
    /\ last_menu.prompt = Title(FilesName)
    /\ last_menu.selected = EmptyStr

\* this step is the selection of a repository entry in the Browse Plugins menu
SelectsRepository == InMenu("browse") /\ StartsWith(last_menu'.selected, RepoPrefix)

\* C24: selecting a repository entry in the Browse Plugins menu opens a menu
\* for that repository (prompt "Official" for the official one, one item per
\* plugin of the fetched index, id prefix "plugins:available:", version badge),
\* from which backing out returns to the Browse menu: the selection opens one
\* more menu above the Browse menu.
C24_RepositoryMenuOpens ==
    [][SelectsRepository =>
          /\ Len(nav') = Len(nav) + 1
          /\ SubSeq(nav', 1, Len(nav)) = nav
          /\ nav'[Len(nav')].menu # "browse"]_vars

\* a repository was selected in the Browse Plugins menu, which is shown again
\* with the notification that browsing is not implemented
C24_Witness ==
    /\ InMenu("browse")
    /\ StartsWith(last_menu.selected, RepoPrefix)
    /\ last_note = << "Repository browsing not yet implemented" >>

IsBrowseMenu(capture) == capture.prompt = << "Browse Plugins" >>

\* the positions of a rendering that hold an item of the type
OfType(capture, type) == { k \in 1..Len(capture.items) : capture.items[k].item_type = type }

\* C25: every rendering of the Browse Plugins menu is exactly one info item
\* (id "plugins:browse:info") followed by one submenu item per configured
\* repository, in the configured order, with id "plugins:repo:<repo>"; the
\* official repository is titled "Official", any other by its identifier.
C25_BrowseListsRepositories ==
    IsBrowseMenu(last_menu) =>
        /\ Len(last_menu.items) = 1 + Len(config.repositories)
        /\ OfType(last_menu, "INFO") = { 1 }
        /\ last_menu.items[1].id = << "plugins", ":", "browse", ":", "info" >>
        /\ \A k \in 1..Len(config.repositories) :
              /\ last_menu.items[k + 1].item_type = "SUBMENU"
              /\ last_menu.items[k + 1].id = << "plugins", ":", "repo", ":" >> \o config.repositories[k]
              /\ last_menu.items[k + 1].title =
                     IF config.repositories[k] = << "markhedleyjones/menu-kit-plugins" >>
                     THEN << "Official" >>
                     ELSE config.repositories[k]

\* the Browse Plugins menu rendered with the official and a second repository
\* configured
C25_Witness ==
    /\ IsBrowseMenu(last_menu)
    /\ Len(config.repositories) = 2
    /\ last_menu.items[2].title = << "Official" >>
    /\ last_menu.items[3].title = << "someone/extras" >>

\* the order of the plugin names as strings
NameRank(name) ==
    CASE name = << "files" >> -> 1
      [] name = << "my-plugin" >> -> 2
      [] name = << "plugins" >> -> 3
      [] name = << "settings" >> -> 4

\* the parts of a badge
BadgeParts(item) == { item.badge[k] : k \in 1..Len(item.badge) }

\* C26: every rendering of the Installed Plugins menu holds exactly one item
\* per installed plugin, with id "plugins:info:<name>", in ascending order of
\* name, settings and plugins always among them; an item's badge says
\* "bundled" exactly when its plugin is settings or plugins, and "installed"
\* otherwise.
C26_InstalledListsPlugins ==
    IsInstalledMenu(last_menu) =>
        /\ Len(last_menu.items) = Cardinality(loader.plugins)
        /\ { last_menu.items[k].title : k \in 1..Len(last_menu.items) } = loader.plugins
        /\ { << "settings" >>, << "plugins" >> } \subseteq Listed(last_menu)
        /\ \A k \in 1..Len(last_menu.items) :
              /\ last_menu.items[k].id = << "plugins", ":", "info", ":" >> \o last_menu.items[k].title
              /\ k > 1 => NameRank(last_menu.items[k - 1].title) < NameRank(last_menu.items[k].title)
              /\ "bundled" \in BadgeParts(last_menu.items[k])
                     <=> last_menu.items[k].title \in { << "settings" >>, << "plugins" >> }
              /\ "installed" \in BadgeParts(last_menu.items[k])
                     <=> last_menu.items[k].title \notin { << "settings" >>, << "plugins" >> }

\* the Installed Plugins menu rendered with a third-party plugin loaded: files,
\* plugins, settings in this order, the first one badged installed
C26_Witness ==
    /\ IsInstalledMenu(last_menu)
    /\ Len(last_menu.items) = 3
    /\ last_menu.items[1].title = FilesName
    /\ "installed" \in BadgeParts(last_menu.items[1])
    /\ "bundled" \in BadgeParts(last_menu.items[3])

\* the line PRINT writes for an item: the title, behind the submenu prefix for
\* a SUBMENU item, and the badge in parentheses behind it when there is one
PrintLine(item) ==
    (IF item.item_type = "SUBMENU" THEN config.submenu_prefix ELSE << >>)
    \o item.title
    \o (IF item.badge # << >> THEN << "  (" >> \o item.badge \o << ")" >> ELSE << >>)

\* C27: PRINT mode writes one line per ranked item, in ranking order, the
\* title of a SUBMENU item behind the submenu prefix and a non-empty badge
\* appended in parentheses; it shows no menu, records no use and runs no
\* plugin, and it ends with EXIT_SUCCESS.
C27_PrintOnlyPrints ==
    mode = "print" =>
        /\ shows = 0
        /\ record_calls = << >>
        /\ run_calls = << >>
        /\ pc \in { "print", "done" }
        /\ pc = "print" => output = << >>
        /\ pc = "done" =>
              /\ exit_code = EXIT_SUCCESS
              /\ Len(output) = Len(database.items)
              /\ \A k \in 1..Len(output) :
                    /\ output[k].stream = "stdout"
                    /\ output[k].arg = PrintLine(GetItems(database, TRUE)[k])

\* PRINT printed a SUBMENU item behind the prefix and an item with its badge
C27_Witness ==
    /\ mode = "print"
    /\ pc = "done"
    /\ Len(output) = 3
    /\ output[1].arg = << "-> ", "Settings" >>
    /\ output[3].arg = << "Recent", "  (", "3", ")" >>

\* C28: REBUILD mode is terminal: the run calls index_all() once more, reports
\* that the cache was rebuilt and returns EXIT_SUCCESS; it shows no menu, runs
\* no plugin and records no use, and nothing follows.
C28_RebuildIsTerminal ==
    /\ [](mode = "rebuild" =>
             /\ pc = "done"
             /\ exit_code = EXIT_SUCCESS
             /\ output = << Line("stdout", "Cache rebuilt", << >>) >>
             /\ shows = 0
             /\ items_shown = << >>
             /\ run_calls = << >>
             /\ record_calls = << >>)
    /\ [][/\ (mode # "rebuild" /\ mode' = "rebuild") =>
                (options.rebuild /\ index_calls' = index_calls + 1 /\ load_calls' = load_calls)
          /\ mode = "rebuild" => UNCHANGED vars]_vars

\* a rebuild was asked for together with a plugin, selections and the item
\* listing, and the run ended after the second index_all
C28_Witness ==
    /\ mode = "rebuild"
    /\ pc = "done"
    /\ index_calls = 2
    /\ Truthy(options.plugin)
    /\ options.selections # << >>
    /\ options.print_items

\* the part of a plugin[:action] specifier before its first colon, and the
\* part behind it
SpecName(plugin_spec) ==
    IF \E k \in 1..Len(plugin_spec) : plugin_spec[k] = ":"
    THEN SubSeq(plugin_spec, 1,
                (CHOOSE k \in 1..Len(plugin_spec) :
                    plugin_spec[k] = ":" /\ \A j \in 1..(k - 1) : plugin_spec[j] # ":") - 1)
    ELSE plugin_spec

SpecAction(plugin_spec) ==
    IF \E k \in 1..Len(plugin_spec) : plugin_spec[k] = ":"
    THEN SubSeq(plugin_spec, Len(SpecName(plugin_spec)) + 2, Len(plugin_spec))
    ELSE << >>

\* C29: DIRECT_PLUGIN mode with dry-run only reports the plugin name and the
\* action parsed from the specifier (the action when there is one) and ends
\* with EXIT_SUCCESS; run_plugin is never called, so the run succeeds even for
\* a name no loaded plugin has, and no menu is shown and no use recorded.
C29_DryRunDirectOnlyReports ==
    (mode = "direct" /\ options.dry_run) =>
        /\ run_calls = << >>
        /\ record_calls = << >>
        /\ shows = 0
        /\ exception = ""
        /\ pc \in { "direct", "done" }
        /\ pc = "direct" => output = << >>
        /\ pc = "done" =>
              /\ exit_code = EXIT_SUCCESS
              /\ output = << Line("stdout", "Would run plugin", SpecName(options.plugin)) >>
                          \o (IF SpecAction(options.plugin) # << >>
                              THEN << Line("stdout", "With action", SpecAction(options.plugin)) >>
                              ELSE << >>)

\* the dry run of ghost:x, a name no plugin has, ended with success after
\* reporting the name and the action
C29_Witness ==
    /\ mode = "direct"
    /\ options.dry_run
    /\ options.plugin = << "ghost", ":", "x" >>
    /\ << "ghost" >> \notin loader.plugins
    /\ pc = "done"
    /\ exit_code = EXIT_SUCCESS
    /\ Len(output) = 2

\* the modes from the highest precedence to the lowest
Precedence == << "rebuild", "direct", "chain", "print", "menu" >>

\* the modes the options ask for; the interactive menu is asked for by default
Asked ==
    { "menu" }
    \cup (IF options.rebuild THEN { "rebuild" } ELSE {})
    \cup (IF options.plugin # << >> THEN { "direct" } ELSE {})
    \cup (IF options.selections # << >> THEN { "chain" } ELSE {})
    \cup (IF options.print_items THEN { "print" } ELSE {})

HighestAsked ==
    Precedence[CHOOSE k \in 1..Len(Precedence) :
                  Precedence[k] \in Asked /\ \A j \in 1..(k - 1) : Precedence[j] \notin Asked]

\* C30: after a successful setup the run takes exactly one mode, the first of
\* rebuild, plugin, selections, print_items that the options ask for and the
\* interactive menu when none is: an option of lower precedence has no effect
\* on the mode, the mode is taken once and the method run is that mode's.
C30_OneModeByPrecedence ==
    /\ [](/\ mode # "none" => (mode = HighestAsked /\ loader.created /\ backend # "")
          /\ pc \in { "direct", "chain", "print", "menu" } => mode = pc)
    /\ [][/\ mode # "none" => mode' = mode
          /\ (pc = "dispatch" /\ pc' # "dispatch") => mode' = HighestAsked]_vars

\* selections and the item listing were given without a rebuild or a plugin,
\* and the run went through the chain without printing the items
C30_Witness ==
    /\ mode = "chain"
    /\ pc = "done"
    /\ ~options.rebuild
    /\ options.plugin = << >>
    /\ options.print_items
    /\ resolved # << >>

\* the interactive loop is over
LoopLeft == mode = "menu" /\ pc # "menu"

\* C31: every return of the INTERACTIVE_LOOP carries EXIT_CANCELLED, never
\* success; the loop is left only when the item list is empty or the backend
\* reports a cancelled or null selection, and any non-null selection leads to
\* another iteration.
C31_LoopEndsOnlyByCancel ==
    /\ [](LoopLeft =>
             /\ pc = "done"
             /\ exit_code = EXIT_CANCELLED
             /\ (GetItems(database, TRUE) = << >> \/ last_result.cancelled \/ last_result.selected = 0))
    /\ [][(pc = "menu" /\ shows' = shows + 1
             /\ ~last_result'.cancelled /\ last_result'.selected # 0) => ~LoopLeft']_vars

\* the backends a name stands for: the name itself, any detected one for no
\* name
NamedBy(name) == IF name = "" THEN { "rofi", "dmenu", "fzf" } ELSE { name }

\* the backends setup may resolve under the options and the configuration
Resolvable ==
    CASE options.terminal -> { "fzf" }
      [] ~options.terminal /\ options.print_items -> { "stdout" }
      [] ~options.terminal /\ ~options.print_items /\ options.backend # "" -> { options.backend }
      [] OTHER -> NamedBy(config.menu_backend)

\* C32: setup resolves the backend by fixed precedence: the terminal flag
\* forces "fzf" and, without it, print_items forces "stdout", either even when
\* a backend option is given; else the backend option; else the configured
\* backend, auto-detected when that is empty. Plugins are loaded and indexed
\* only after a backend was resolved, and load_all precedes index_all.
C32_BackendPrecedenceThenPlugins ==
    /\ [](/\ backend # "" => backend \in Resolvable
          /\ (loader.created \/ load_calls > 0 \/ index_calls > 0) => backend # ""
          /\ index_calls > 0 => load_calls = 1
          /\ load_calls <= 1)
    /\ [][/\ backend # "" => backend' = backend
          /\ load_calls' # load_calls => (backend # "" /\ index_calls = 0 /\ loader'.created)
          /\ index_calls' # index_calls => (backend # "" /\ load_calls' = 1)]_vars

\* the terminal flag was given together with the backend option rofi and the
\* item listing: fzf was resolved, and the plugins were loaded and indexed
C32_Witness ==
    /\ options.terminal
    /\ options.print_items
    /\ options.backend = "rofi"
    /\ backend = "fzf"
    /\ load_calls = 1
    /\ index_calls = 1

\* this step is an iteration of the interactive loop in which the backend
\* answered with an item
LoopSelects ==
    /\ mode = "menu"
    /\ pc = "menu"
    /\ shows' = shows + 1
    /\ ~last_result'.cancelled
    /\ last_result'.selected # 0

\* the item that iteration selected, of the ranked list it showed
LoopSelected == items_shown'[last_result'.selected]

\* the use counters with one more use of the id
OneMoreUse(usage, id) ==
    [i \in DOMAIN usage \cup { id } |-> IF i = id THEN UseCount(usage, id) + 1 ELSE usage[i]]

\* C33: SCRIPTED_CHAIN, DIRECT_PLUGIN and PRINT modes never call record_use.
\* Once the store is opened its use counters change only in an iteration of
\* the INTERACTIVE_LOOP that selects an item with frequency tracking enabled,
\* by one use of that item, and they do so for an item without an owning
\* plugin as well.
C33_OnlyTheLoopRecordsUse ==
    /\ [](mode \in { "chain", "direct", "print" } => record_calls = << >>)
    /\ [][/\ (pc # "setup_config" /\ database'.usage # database.usage) =>
                (LoopSelects /\ config.frequency_tracking)
          /\ record_calls' # record_calls => (LoopSelects /\ config.frequency_tracking)
          /\ (LoopSelects /\ config.frequency_tracking) =>
                /\ record_calls' = Append(record_calls, LoopSelected.id)
                /\ database'.usage = OneMoreUse(database.usage, LoopSelected.id)
          /\ (LoopSelects /\ ~config.frequency_tracking) => database' = database]_vars

\* the loop recorded a use of Notes, which has no owning plugin and for which
\* no plugin was run
C33_Witness ==
    /\ mode = "menu"
    /\ config.frequency_tracking
    /\ record_calls = << NotesItem.id >>
    /\ run_calls = << >>
    /\ UseCount(database.usage, NotesItem.id) = 1
    /\ NotesItem.plugin = << >>

====
